---- MODULE Spec2Model ----
(***************************************************************************)
(* Payment-link lifecycle, order derivation and stock ledger of the        *)
(* nevelline backend: paymentController, orderController, the paystack     *)
(* client and the Order / PaymentLink / Product schemas.                   *)
(*                                                                         *)
(* Every request handler is one action.  Money in the major unit (naira)   *)
(* is held in fixed point with Scale units per naira, fine enough that     *)
(* every "/ 100" the code performs is exact on the values reached.         *)
(***************************************************************************)
EXTENDS Integers, Sequences, FiniteSets, TLC

VARIABLES
  products,    \* Product collection: id -> [price, quantity, inStock, badge]
  links,       \* PaymentLink collection: reference -> document
  orders,      \* Order collection, in insertion order
  gateway,     \* the gateway's transactions: reference -> [amount (kobo), status, named, reports]
  events,      \* webhook events the gateway has signed and may deliver (any number of times)
  now,         \* wall clock, minutes
  resp,        \* the last request handled: [op, code (HTTP status)]
  stockTaken,  \* history: units Derive-Order has removed from stock, per reference
  inflight,    \* requests being handled step by step: trigger -> its position and locals
  mailer       \* the notification dispatcher as the next send will find it

vars == <<products, links, orders, gateway, events, now, resp, stockTaken, inflight,
          mailer>>

-----------------------------------------------------------------------------
(* Bounds of the model *)

MaxOrders == 2       \* documents in the Order collection
MaxTicks == 1        \* clock advances
MaxOversell == 1     \* how far below zero a product's quantity is followed
MaxRestock == 1      \* how far above its initial value it is followed
MaxKobo == 120       \* custom amounts of create requests, in hundredths of a naira

(* Program constants *)

KoboPerNaira == 100
StaleMinutes == 10
DefaultSessionTimeoutMinutes == 1440

-----------------------------------------------------------------------------
(* Value domains *)

Refs == {1, 2}                  \* PAY-<timestamp>-<random>: increasing with creation time
ProductIds == {"p1"}
NoProduct == "none"             \* productId absent on a link
CustomPayment == "custom-payment"
NoReference == 0                \* paymentReference absent on an order
NoExpiry == -1                  \* expiresAt absent
NoBadge == "none"

\* Fixed point: Scale units per naira, UnitsPerKobo units per kobo.
Scale == KoboPerNaira * KoboPerNaira
UnitsPerKobo == Scale \div KoboPerNaira
Naira(n) == n * Scale

TickMinutes == StaleMinutes + 1
MaxTime == MaxTicks * TickMinutes

\* The catalogue at start: one product, price 5000, three in stock.
SeedProducts ==
  [p \in ProductIds |->
     [price |-> Naira(5000), quantity |-> 3, inStock |-> TRUE, badge |-> "NEW"]]

\* Bodies of generate-link requests: the product twice on the default session,
\* the product once on a five-minute session, and a custom amount.
LinkRequests ==
  { [productId |-> "p1", customAmount |-> 0, quantity |-> 2,
     sessionTimeoutMinutes |-> DefaultSessionTimeoutMinutes,
     customerName |-> "Ada", customerPhone |-> "080"],
    [productId |-> "p1", customAmount |-> 0, quantity |-> 1,
     sessionTimeoutMinutes |-> 5,
     customerName |-> "", customerPhone |-> ""],
    [productId |-> NoProduct, customAmount |-> Naira(2500), quantity |-> 1,
     sessionTimeoutMinutes |-> DefaultSessionTimeoutMinutes,
     customerName |-> "Ada", customerPhone |-> "080"] }

UnknownProduct == "p9"               \* a well-formed id no product carries
MalformedProduct == "not-an-id"      \* no ObjectId: findById throws a CastError
TimeoutNotGiven == -1                \* sessionTimeoutMinutes absent from the body

\* mongoose.Types.ObjectId.isValid(id); findById on any other string throws.
WellFormedId(id) == id \notin {MalformedProduct, CustomPayment}

\* const { sessionTimeoutMinutes = 1440 } = req.body
SessionTimeout(body) ==
  IF body.sessionTimeoutMinutes = TimeoutNotGiven
    THEN DefaultSessionTimeoutMinutes
    ELSE body.sessionTimeoutMinutes

-----------------------------------------------------------------------------
(* Gateway client: utils/paystack *)

\* createPaymentLink: Math.round(customAmount * 100)
ToKobo(amount) == (amount + UnitsPerKobo \div 2) \div UnitsPerKobo

\* Faulty variant: the minor-unit amount divided by 100 twice.
FromKoboTwice(kobo) == (kobo * UnitsPerKobo) \div KoboPerNaira

\* verifyPayment: response.data.data.amount / 100
FromKobo(kobo) == kobo * UnitsPerKobo

\* A major-unit amount divided by 100 (paymentData.amount / 100)
Div100(amount) == amount \div KoboPerNaira

GatewayError == [success |-> FALSE]

\* Faulty variant: a failed gateway call is reported as a failed payment.
VerifyPaymentErrorAsFailed(gw, reference, up) ==
  IF ~up \/ reference \notin DOMAIN gw
    THEN [success |-> TRUE,
          data |-> [reference |-> reference, amount |-> 0, status |-> "failed",
                    named |-> FALSE]]
    ELSE LET t == gw[gw[reference].reports] IN
         [success |-> TRUE,
          data |-> [reference |-> gw[reference].reports,
                    amount |-> t.amount * UnitsPerKobo,
                    status |-> t.status,
                    named |-> t.named]]

\* verifyPayment(reference): the gateway's answer, or an error when the call
\* fails (network, 401, 5xx) or the gateway knows no such transaction (404).
\* The answer is the transaction the gateway reports for the reference, with
\* the reference that transaction carries (response.data.data.reference).
VerifyPayment(gw, reference, up) ==
  IF ~up \/ reference \notin DOMAIN gw
    THEN GatewayError
    ELSE LET t == gw[gw[reference].reports] IN
         [success |-> TRUE,
          data |-> [reference |-> gw[reference].reports,
                    amount |-> FromKobo(t.amount),
                    status |-> t.status,
                    named |-> t.named]]

\* The gateway's customer record carries first and last name only when the
\* customer is known to it under a name; a transaction initialised with an
\* e-mail address alone has none.
GatewayNamed == FALSE

\* Faulty variant: the client reports success whatever the gateway answered.
CreatePaymentLinkAlwaysOk(customAmount, gatewayOk) ==
  [success |-> TRUE, amountInKobo |-> ToKobo(customAmount)]

\* createPaymentLink(linkData): the amount checks, the conversion to kobo and
\* the initialize call; gatewayOk is whether that call (and the configuration
\* it needs) succeeds.
CreatePaymentLink(customAmount, gatewayOk) ==
  IF customAmount <= 0 \/ customAmount < Naira(1) \/ ~gatewayOk
    THEN [success |-> FALSE, amountInKobo |-> 0]
    ELSE [success |-> TRUE, amountInKobo |-> ToKobo(customAmount)]

-----------------------------------------------------------------------------
(* Order store: models/Order *)

\* OrderSchema: the required fields are present (an empty string fails
\* "required") and every item has quantity >= 1.
OrderValid(o) ==
  /\ o.customerName # ""
  /\ o.customerEmail # ""
  /\ o.customerPhone # ""
  /\ \A i \in 1 .. Len(o.items) : o.items[i].quantity >= 1

\* order.save(): the document is appended when it validates and the store
\* accepts the write; otherwise save() throws and nothing is stored.
SaveOrder(ords, o, saveOk) ==
  IF OrderValid(o) /\ saveOk THEN Append(ords, o) ELSE ords

\* Faulty variant: the lookup also filters on paymentStatus 'pending', so an
\* order that is already paid is not found.
FindOrderPendingOnly(ords, reference) ==
  IF \E i \in 1 .. Len(ords) :
       ords[i].paymentReference = reference /\ ords[i].paymentStatus = "pending"
    THEN CHOOSE i \in 1 .. Len(ords) :
           ords[i].paymentReference = reference /\ ords[i].paymentStatus = "pending"
    ELSE 0

\* Order.findOne({ paymentReference }): the first match, 0 when there is none.
FindOrderByReference(ords, reference) ==
  IF \E i \in 1 .. Len(ords) : ords[i].paymentReference = reference
    THEN CHOOSE i \in 1 .. Len(ords) :
           /\ ords[i].paymentReference = reference
           /\ \A j \in 1 .. (i - 1) : ords[j].paymentReference # reference
    ELSE 0

CountOrders(ords, reference) ==
  Cardinality({i \in 1 .. Len(ords) : ords[i].paymentReference = reference})

-----------------------------------------------------------------------------
(* Notification: EmailService *)

\* The dispatcher as a send finds it: working, failing inside the mail
\* provider's call, or failing so that an exception reaches the caller.
MailerStates == {"up", "refusing", "throwing"}

\* EmailService.sendOrderConfirmation(data): true when the message is handed
\* over, false when the provider's call fails (caught inside the service).
SendOrderConfirmation(m) ==
  IF m = "up" THEN "true" ELSE IF m = "refusing" THEN "false" ELSE "throws"

\* Faulty variant: the call is not wrapped, so an exception leaves the handler.
ConfirmationUnguarded(m) == SendOrderConfirmation(m) # "throws"

\* try { emailSent = await EmailService.sendOrderConfirmation(...) }
\* catch (emailError) { log }: does the handler go on after the block?  It
\* does on true and on false (both only logged), and on an exception too.
ConfirmationContinues(m) ==
  SendOrderConfirmation(m) \in {"true", "false", "throws"}

-----------------------------------------------------------------------------
(* Reconciliation: controllers/paymentController *)

Max(a, b) == IF a >= b THEN a ELSE b

\* Derive-Order's stock update: $inc quantity by -q, and inStock / badge set from
\* the snapshot of the product that was populated with the link.
TakeStockFrom(prods, pid, q, snapshot) ==
  [prods EXCEPT
     ![pid].quantity = @ - q,
     ![pid].inStock = Max(0, snapshot.quantity - q) > 0,
     ![pid].badge = IF Max(0, snapshot.quantity - q) <= 0
                      THEN "SOLD OUT" ELSE snapshot.badge]

TakeStock(prods, pid, q) == TakeStockFrom(prods, pid, q, prods[pid])

\* The order Derive-Order builds from a link and the verification payload.
LinkOrderData(link, reference, paymentData, prods) ==
  [orderType |-> "payment_link",
   customerEmail |-> "customer@nevellines.com",
   customerName |-> IF paymentData.named THEN "Gateway Name" ELSE link.customerName,
   customerPhone |-> link.customerPhone,
   items |-> IF link.productId \in DOMAIN prods
               THEN <<[productId |-> link.productId, price |-> link.amount,
                       quantity |-> link.quantity]>>
               ELSE <<[productId |-> CustomPayment, price |-> link.amount,
                       quantity |-> link.quantity]>>,
   subtotal |-> Div100(paymentData.amount),
   shipping |-> 0,
   total |-> Div100(paymentData.amount),
   paymentReference |-> reference,
   paymentStatus |-> "paid",
   status |-> "processing"]

\* createOrderFromPaymentLink after the lookup found no order: the stock update
\* and the order write, for the link and the products as they were read
\* (populated) at the start of the call.
SaveDerivedOrder(db, link, reference, paymentData, populated, saveOk) ==
  LET productBacked == link.productId \in DOMAIN populated
      orderData == LinkOrderData(link, reference, paymentData, populated)
  IN
  LET saved ==
        [db EXCEPT
           !.products = IF productBacked
                          THEN TakeStockFrom(db.products, link.productId, link.quantity,
                                             populated[link.productId])
                          ELSE @,
           !.stockTaken = IF productBacked
                            THEN [@ EXCEPT ![reference] = @ + link.quantity]
                            ELSE @,
           !.orders = SaveOrder(@, orderData, saveOk)]
  IN
  \* the confirmation e-mail is the last statement; an exception that left
  \* its block would end in the function's catch-all, which only logs
  IF Len(saved.orders) > Len(db.orders) /\ ~ConfirmationContinues(mailer)
    THEN saved
    ELSE saved

\* createOrderFromPaymentLink(reference, paymentData).  db is the three
\* collections (and the stock history); the result is db after the call.
\* Any exception is caught at the end of the function and only logged.
CreateOrderFromPaymentLink(db, reference, paymentData, saveOk) ==
  IF reference \notin DOMAIN db.links THEN db
  ELSE
    LET link == db.links[reference]
        found == FindOrderByReference(db.orders, reference)
    IN
    IF found # 0 THEN
      IF db.orders[found].paymentStatus # "paid" /\ saveOk
        THEN [db EXCEPT !.orders[found].paymentStatus = "paid",
                        !.orders[found].status = "processing"]
        ELSE db
    ELSE
      SaveDerivedOrder(db, link, reference, paymentData, db.products, saveOk)

\* verifyPaymentTransaction, after a successful gateway call.
VerifyTransition(db, reference, paymentData, saveOk) ==
  IF paymentData.status = "success" THEN
    LET marked ==
          IF reference \in DOMAIN db.links /\ db.links[reference].status # "completed"
            THEN [db EXCEPT !.links[reference].status = "completed"]
            ELSE db
    IN CreateOrderFromPaymentLink(marked, reference, paymentData, saveOk)
  ELSE
    IF reference \in DOMAIN db.links /\ paymentData.status = "failed"
      THEN [db EXCEPT !.links[reference].status = "failed"]
      ELSE db

\* handleSuccessfulCharge(data)
HandleSuccessfulCharge(db, reference) ==
  LET found == FindOrderByReference(db.orders, reference)
      paid == IF found # 0 /\ db.orders[found].paymentStatus # "paid"
                THEN [db EXCEPT !.orders[found].paymentStatus = "paid",
                                !.orders[found].status = "processing"]
                ELSE db
  IN IF reference \in DOMAIN paid.links /\ paid.links[reference].status # "completed"
       THEN [paid EXCEPT !.links[reference].status = "completed"]
       ELSE paid

\* handleFailedCharge(data)
HandleFailedCharge(db, reference) ==
  LET found == FindOrderByReference(db.orders, reference)
      failed == IF found # 0
                  THEN [db EXCEPT !.orders[found].paymentStatus = "failed"]
                  ELSE db
  IN IF reference \in DOMAIN failed.links
       THEN [failed EXCEPT !.links[reference].status = "failed"]
       ELSE failed

-----------------------------------------------------------------------------
(* Sweep: getPaymentLinks *)

\* Faulty variant: the comparison points the wrong way ($gt for $lt).
ExpireLinksNotYetDue(lks, t) ==
  [r \in DOMAIN lks |->
     IF lks[r].status = "pending" /\ lks[r].expiresAt # NoExpiry /\ lks[r].expiresAt > t
       THEN [lks[r] EXCEPT !.status = "expired"]
       ELSE lks[r]]

\* PaymentLink.updateMany({ expiresAt < now, status: 'pending' }, { status: 'expired' })
ExpireLinks(lks, t) ==
  [r \in DOMAIN lks |->
     IF lks[r].status = "pending" /\ lks[r].expiresAt # NoExpiry /\ lks[r].expiresAt < t
       THEN [lks[r] EXCEPT !.status = "expired"]
       ELSE lks[r]]

\* PaymentLink.find({ status: 'pending', createdAt < now - 10 min })
OldPendingLinks(lks, t) ==
  {r \in DOMAIN lks : lks[r].status = "pending" /\ lks[r].createdAt < t - StaleMinutes}

\* One turn of the sweep's loop, for link r.
SweepLink(db, gw, r, up, saveOk) ==
  LET verification == VerifyPayment(gw, r, up) IN
  IF ~verification.success THEN db
  ELSE IF verification.data.status = "success"
    THEN CreateOrderFromPaymentLink([db EXCEPT !.links[r].status = "completed"],
                                    r, verification.data, saveOk)
  ELSE IF verification.data.status = "failed"
    THEN [db EXCEPT !.links[r].status = "failed"]
  ELSE db

\* Faulty variant: the loop has no try/catch of its own, so the first gateway
\* error ends it.
RECURSIVE SweepAllAbortOnError(_, _, _, _, _)
SweepAllAbortOnError(db, gw, todo, down, saveFail) ==
  IF todo = {} THEN db
  ELSE LET r == CHOOSE x \in todo : \A y \in todo : x <= y
       IN IF r \in down THEN db
          ELSE SweepAllAbortOnError(SweepLink(db, gw, r, TRUE, r \notin saveFail),
                                    gw, todo \ {r}, down, saveFail)

\* The loop over the stale links, oldest first.  down: the references whose
\* gateway call fails; saveFail: those whose order write the store refuses.
RECURSIVE SweepAll(_, _, _, _, _)
SweepAll(db, gw, todo, down, saveFail) ==
  IF todo = {} THEN db
  ELSE LET r == CHOOSE x \in todo : \A y \in todo : x <= y
       IN SweepAll(SweepLink(db, gw, r, r \notin down, r \notin saveFail),
                   gw, todo \ {r}, down, saveFail)

-----------------------------------------------------------------------------
(* Webhook signature *)

SecretKey == "sk_secret"
ForgedKey == "sk_guess"
NoSignature == <<>>

\* HMAC-SHA512 of the body under a key, hex: equal digests mean equal key and body.
Hmac(key, body) == <<key, body>>

\* Faulty variant: any digest made with the secret is accepted, whatever body
\* it was made of.
SignatureOfAnyBody(body, signature) ==
  signature # NoSignature /\ signature[1] = SecretKey

\* hash === req.headers['x-paystack-signature']
SignatureMatches(body, signature) == Hmac(SecretKey, body) = signature

WebhookEvents == {"charge.success", "charge.failed", "transfer.success"}
WebhookBodies == [event : WebhookEvents, reference : Refs]

-----------------------------------------------------------------------------
(* State *)

\* The requests that are followed step by step: a public verify and a sweep.
Triggers == {"verify", "sweep"}
Idle == [pc |-> "idle"]

\* Two cancelOrder requests that are followed step by step.
Cancellers == {"cancelA", "cancelB"}

Db == [links |-> links, orders |-> orders, products |-> products,
       stockTaken |-> stockTaken]

Commit(db) ==
  /\ links' = db.links
  /\ orders' = db.orders
  /\ products' = db.products
  /\ stockTaken' = db.stockTaken

\* The part of the state space the model follows.
Within(db) ==
  /\ Len(db.orders) <= MaxOrders
  /\ \A p \in DOMAIN db.products :
       /\ db.products[p].quantity >= -MaxOversell
       /\ db.products[p].quantity <= SeedProducts[p].quantity + MaxRestock
       /\ \A r \in Refs :
            db.stockTaken[r] <= SeedProducts[p].quantity + MaxOversell

Init ==
  /\ products = SeedProducts
  /\ links = <<>>
  /\ orders = <<>>
  /\ gateway = <<>>
  /\ events = {}
  /\ now = 0
  /\ resp = [op |-> "none", code |-> 0]
  /\ stockTaken = [r \in Refs |-> 0]
  /\ inflight = [t \in Triggers \cup Cancellers |-> Idle]
  /\ mailer = "up"

-----------------------------------------------------------------------------
(* Environment *)

Tick ==
  /\ now + TickMinutes <= MaxTime
  /\ now' = now + TickMinutes
  /\ UNCHANGED <<products, links, orders, gateway, events, resp, stockTaken, inflight, mailer>>

\* The mail provider or the dispatcher's configuration changes state.
MailerTurns(m) ==
  /\ mailer # m
  /\ mailer' = m
  /\ UNCHANGED <<products, links, orders, gateway, events, now, resp, stockTaken, inflight>>

\* The customer's attempt to pay at the gateway ends in success or failure; the
\* gateway signs a webhook event for it.  A successful transaction stays so.
GatewayCharge(r, outcome) ==
  /\ r \in DOMAIN gateway
  /\ gateway[r].status \in {"pending", "failed"}
  /\ gateway' = [gateway EXCEPT ![r].status = outcome]
  /\ events' = events \cup
       {[event |-> IF outcome = "success" THEN "charge.success" ELSE "charge.failed",
         reference |-> r]}
  /\ UNCHANGED <<products, links, orders, now, resp, stockTaken, inflight, mailer>>

\* The gateway comes to answer a verify of reference r with another of its
\* transactions.
GatewayMisreport(r, other) ==
  /\ r \in DOMAIN gateway /\ other \in DOMAIN gateway
  /\ other # r
  /\ gateway[r].reports = r
  /\ gateway' = [gateway EXCEPT ![r].reports = other]
  /\ UNCHANGED <<products, links, orders, events, now, resp, stockTaken, inflight, mailer>>

-----------------------------------------------------------------------------
(* Handlers of paymentController *)

\* generatePaymentLink: amount = product.price * quantity, or customAmount
ResolvedAmount(body, prods) ==
  IF body.productId \in DOMAIN prods
    THEN prods[body.productId].price * body.quantity
    ELSE body.customAmount

\* paymentLinkSchema validation on save: amount min 1, quantity min 1.
LinkValid(link) == link.amount >= Naira(1) /\ link.quantity >= 1

\* generatePaymentLink
GeneratePaymentLink(body, gatewayOk) ==
  LET amount == ResolvedAmount(body, products)
      paymentResult == CreatePaymentLink(amount, gatewayOk)
      free == Refs \ DOMAIN gateway
      reference == CHOOSE x \in free : \A y \in free : x <= y
      paymentLink == [status |-> "pending",
                      amount |-> amount,
                      quantity |-> body.quantity,
                      productId |-> body.productId,
                      customerName |-> body.customerName,
                      customerPhone |-> body.customerPhone,
                      createdAt |-> now,
                      expiresAt |-> IF SessionTimeout(body) # 0
                                      THEN now + SessionTimeout(body)
                                      ELSE NoExpiry]
  IN
  /\ UNCHANGED <<products, orders, events, now, stockTaken, inflight, mailer>>
  /\ IF body.productId = MalformedProduct
       THEN /\ resp' = [op |-> "generate", code |-> 500]
            /\ UNCHANGED <<links, gateway>>
     ELSE IF body.productId # NoProduct /\ body.productId \notin DOMAIN products
       THEN /\ resp' = [op |-> "generate", code |-> 404]
            /\ UNCHANGED <<links, gateway>>
     ELSE IF amount <= 0
       THEN /\ resp' = [op |-> "generate", code |-> 400]
            /\ UNCHANGED <<links, gateway>>
     ELSE IF ~paymentResult.success
       THEN /\ resp' = [op |-> "generate", code |-> 500]
            /\ UNCHANGED <<links, gateway>>
     ELSE /\ free # {}
          /\ gateway' = [x \in DOMAIN gateway \cup {reference} |->
                           IF x = reference
                             THEN [amount |-> paymentResult.amountInKobo,
                                   status |-> "pending", named |-> GatewayNamed,
                                   reports |-> reference]
                             ELSE gateway[x]]
          /\ IF LinkValid(paymentLink)
               THEN /\ links' = [x \in DOMAIN links \cup {reference} |->
                                   IF x = reference THEN paymentLink ELSE links[x]]
                    /\ resp' = [op |-> "generate", code |-> 200]
               ELSE /\ resp' = [op |-> "generate", code |-> 500]
                    /\ UNCHANGED links

\* verifyPaymentTransaction
VerifyPaymentTransaction(reference, up, saveOk) ==
  LET verification == VerifyPayment(gateway, reference, up) IN
  /\ UNCHANGED <<gateway, events, now, inflight, mailer>>
  /\ IF ~verification.success
       THEN /\ resp' = [op |-> "verify", code |-> 400]
            /\ UNCHANGED <<products, links, orders, stockTaken>>
       ELSE LET db == VerifyTransition(Db, reference, verification.data, saveOk) IN
            /\ Within(db)
            /\ Commit(db)
            /\ resp' = [op |-> "verify", code |-> 200]

\* handlePaystackWebhook
HandlePaystackWebhook(body, signature) ==
  /\ UNCHANGED <<gateway, events, now, inflight, mailer>>
  /\ IF SignatureMatches(body, signature)
       THEN /\ Commit(IF body.event = "charge.success"
                        THEN HandleSuccessfulCharge(Db, body.reference)
                      ELSE IF body.event = "charge.failed"
                        THEN HandleFailedCharge(Db, body.reference)
                      ELSE Db)
            /\ resp' = [op |-> "webhook", code |-> 200]
       ELSE /\ resp' = [op |-> "webhook", code |-> 400]
            /\ UNCHANGED <<products, links, orders, stockTaken>>

\* getPaymentLinks: the sweep that runs before the list is read
GetPaymentLinks(down, saveFail) ==
  LET expired == [Db EXCEPT !.links = ExpireLinks(links, now)]
      db == SweepAll(expired, gateway, OldPendingLinks(expired.links, now),
                     down, saveFail)
  IN
  /\ UNCHANGED <<gateway, events, now, inflight, mailer>>
  /\ Within(db)
  /\ Commit(db)
  /\ resp' = [op |-> "links", code |-> 200]

\* deletePaymentLink
DeletePaymentLink(reference) ==
  /\ UNCHANGED <<products, orders, gateway, events, now, stockTaken, inflight, mailer>>
  /\ IF reference \in DOMAIN links
       THEN /\ links' = [x \in DOMAIN links \ {reference} |-> links[x]]
            /\ resp' = [op |-> "deleteLink", code |-> 200]
       ELSE /\ resp' = [op |-> "deleteLink", code |-> 404]
            /\ UNCHANGED links

-----------------------------------------------------------------------------
(* The Verify triggers step by step: each await of the handler is a point *)
(* where another request can run                                          *)

\* The trigger starts: the public verify receives its reference; the sweep
\* runs its expiry update and reads reference r among the stale pending links.
BeginTrigger(t, r) ==
  /\ inflight[t].pc = "idle"
  /\ r \in DOMAIN links
  /\ IF t = "sweep"
       THEN /\ r \in OldPendingLinks(ExpireLinks(links, now), now)
            /\ links' = ExpireLinks(links, now)
       ELSE UNCHANGED links
  /\ inflight' = [inflight EXCEPT ![t] = [pc |-> "begun", reference |-> r]]
  /\ UNCHANGED <<products, orders, gateway, events, now, resp, stockTaken, mailer>>

\* The gateway has answered: on success the link is marked completed and
\* createOrderFromPaymentLink reads the link with its product and looks for an
\* order of the reference; an order that exists is set to paid, otherwise the
\* trigger goes on to build one.  seen: the orders of the reference at this point.
LookupOrder(t) ==
  LET r == inflight[t].reference
      verification == VerifyPayment(gateway, r, TRUE)
      marked == IF r \in DOMAIN links /\ (t = "sweep" \/ links[r].status # "completed")
                  THEN [Db EXCEPT !.links[r].status = "completed"]
                  ELSE Db
      found == FindOrderByReference(orders, r)
  IN
  /\ inflight[t].pc = "begun"
  /\ verification.success
  /\ UNCHANGED <<gateway, events, now, mailer>>
  /\ IF verification.data.status # "success" \/ r \notin DOMAIN links \/ found # 0
       THEN /\ Commit(VerifyTransition(Db, r, verification.data, TRUE))
            /\ inflight' = [inflight EXCEPT ![t] = Idle]
            /\ resp' = [op |-> t, code |-> 200]
       ELSE /\ Commit(marked)
            /\ inflight' = [inflight EXCEPT ![t] =
                              [pc |-> "looked", reference |-> r,
                               paymentData |-> verification.data,
                               link |-> links[r], populated |-> products,
                               seen |-> CountOrders(orders, r)]]
            /\ UNCHANGED resp

\* The stock update and the order write of a trigger that found no order.
SaveDerived(t) ==
  LET db == SaveDerivedOrder(Db, inflight[t].link, inflight[t].reference,
                             inflight[t].paymentData, inflight[t].populated, TRUE)
  IN
  /\ inflight[t].pc = "looked"
  /\ Within(db)
  /\ Commit(db)
  /\ inflight' = [inflight EXCEPT ![t] = Idle]
  /\ resp' = [op |-> t, code |-> 200]
  /\ UNCHANGED <<gateway, events, now, mailer>>

-----------------------------------------------------------------------------
(* Store orders: controllers/orderController *)

\* A value of the request body used as a number: a JSON number, or a JSON
\* string of `digits` decimal digits that reads as the number `value`.
Num(v) == [isString |-> FALSE, value |-> v, digits |-> 0]
Str(v, d) == [isString |-> TRUE, value |-> v, digits |-> d]

RECURSIVE Pow10(_)
Pow10(d) == IF d = 0 THEN 1 ELSE 10 * Pow10(d - 1)

\* calculatedSubtotal + shipping, as JavaScript evaluates "+" and the Number
\* schema type then casts the result: the sum of two numbers, but with a string
\* operand the decimal text of the (whole-naira) subtotal followed by the string.
JsAdd(subtotal, shipping) ==
  IF shipping.isString
    THEN Naira((subtotal \div Scale) * Pow10(shipping.digits)) + shipping.value
    ELSE subtotal + shipping.value

\* Faulty variant: only the product lookup is checked, not the stock.
LineRejectedUnknownOnly(prods, item) == item.productId \notin DOMAIN prods

\* The line fails createOrder's checks: unknown product, out of stock, or more
\* than is available.
LineRejected(prods, item) ==
  \/ item.productId \notin DOMAIN prods
  \/ ~prods[item.productId].inStock
  \/ prods[item.productId].quantity < item.quantity

\* validatedItems: each line with the product's current price.
ValidatedItems(prods, items) ==
  [i \in 1 .. Len(items) |->
     [productId |-> items[i].productId,
      price |-> prods[items[i].productId].price,
      quantity |-> items[i].quantity]]

RECURSIVE SumItems(_)
SumItems(items) ==
  IF items = <<>> THEN 0
  ELSE items[1].price * items[1].quantity + SumItems(Tail(items))

\* createOrder's stock loop: $inc by -quantity, then SOLD OUT when it reads 0.
RECURSIVE DecrementStock(_, _)
DecrementStock(prods, items) ==
  IF items = <<>> THEN prods
  ELSE LET pid == items[1].productId
           taken == [prods EXCEPT ![pid].quantity = @ - items[1].quantity]
           marked == IF taken[pid].quantity = 0
                       THEN [taken EXCEPT ![pid].inStock = FALSE,
                                          ![pid].badge = "SOLD OUT"]
                       ELSE taken
       IN DecrementStock(marked, Tail(items))

StoreOrderData(body, prods) ==
  LET validated == ValidatedItems(prods, body.items)
      calculatedSubtotal == SumItems(validated)
  IN [orderType |-> "store",
      customerEmail |-> body.customerEmail,
      customerName |-> body.customerName,
      customerPhone |-> body.customerPhone,
      items |-> validated,
      subtotal |-> calculatedSubtotal,
      shipping |-> body.shipping.value,
      total |-> JsAdd(calculatedSubtotal, body.shipping),
      paymentReference |-> body.paymentReference,
      paymentStatus |-> "pending",
      status |-> "pending"]

\* Bodies of createOrder requests.
StoreRequests ==
  { [customerName |-> "Bola", customerEmail |-> "b@x.ng", customerPhone |-> "070",
     items |-> <<[productId |-> "p1", quantity |-> 1]>>,
     shipping |-> Num(Naira(1500)), paymentReference |-> NoReference],
    [customerName |-> "Bola", customerEmail |-> "b@x.ng", customerPhone |-> "070",
     items |-> <<[productId |-> "p1", quantity |-> 2]>>,
     shipping |-> Str(Naira(5), 1), paymentReference |-> NoReference] }

\* createOrder
CreateOrder(body, saveOk) ==
  /\ UNCHANGED <<links, gateway, events, now, stockTaken, inflight, mailer>>
  /\ IF \/ body.customerName = "" \/ body.customerEmail = "" \/ body.customerPhone = ""
        \/ Len(body.items) = 0
        \/ \E i \in 1 .. Len(body.items) : LineRejected(products, body.items[i])
       THEN /\ resp' = [op |-> "createOrder", code |-> 400]
            /\ UNCHANGED <<products, orders>>
       ELSE LET orderData == StoreOrderData(body, products) IN
            IF OrderValid(orderData) /\ saveOk
              THEN /\ orders' = SaveOrder(orders, orderData, saveOk)
                   /\ IF ConfirmationContinues(mailer)
                        THEN /\ products' = DecrementStock(products, orderData.items)
                             /\ resp' = [op |-> "createOrder", code |-> 201]
                        ELSE /\ UNCHANGED products
                             /\ resp' = [op |-> "createOrder", code |-> 500]
                   /\ Within([Db EXCEPT !.orders = orders', !.products = products'])
              ELSE /\ resp' = [op |-> "createOrder", code |-> 500]
                   /\ UNCHANGED <<products, orders>>

\* Bodies of updateOrderStatus requests ("" : the field is not sent).
StatusUpdates ==
  { [status |-> "completed", paymentStatus |-> "paid"],
    [status |-> "processing", paymentStatus |-> ""] }

\* updateOrderStatus
UpdateOrderStatus(i, body) ==
  /\ i \in 1 .. Len(orders)
  /\ orders' = [orders EXCEPT
                  ![i].status = IF body.status # "" THEN body.status ELSE @,
                  ![i].paymentStatus =
                     IF body.paymentStatus # "" THEN body.paymentStatus ELSE @]
  /\ resp' = [op |-> "updateOrder", code |-> 200]
  /\ UNCHANGED <<products, links, gateway, events, now, stockTaken, inflight, mailer>>

\* cancelOrder's stock loop: every item whose productId names a product gets its
\* quantity back, inStock set and a SOLD OUT badge removed.  Product.findById
\* throws on an id that is no ObjectId, which ends the loop at that item.
RECURSIVE RestoreStock(_, _)
RestoreStock(prods, items) ==
  IF items = <<>> THEN prods
  ELSE LET pid == items[1].productId IN
       IF ~WellFormedId(pid) THEN prods
       ELSE RestoreStock(
              IF pid \in DOMAIN prods
                THEN [prods EXCEPT
                        ![pid].quantity = @ + items[1].quantity,
                        ![pid].inStock = TRUE,
                        ![pid].badge = IF @ = "SOLD OUT" THEN NoBadge ELSE @]
                ELSE prods,
              Tail(items))

\* cancelOrder
CancelOrder(i) ==
  /\ i \in 1 .. Len(orders)
  /\ UNCHANGED <<links, gateway, events, now, stockTaken, inflight, mailer>>
  /\ IF orders[i].status \in {"completed", "cancelled"}
       THEN /\ resp' = [op |-> "cancelOrder", code |-> 400]
            /\ UNCHANGED <<products, orders>>
       ELSE /\ products' = RestoreStock(products, orders[i].items)
            /\ Within([Db EXCEPT !.products = products'])
            /\ IF \E k \in 1 .. Len(orders[i].items) :
                    ~WellFormedId(orders[i].items[k].productId)
                 THEN /\ resp' = [op |-> "cancelOrder", code |-> 500]
                      /\ UNCHANGED orders
                 ELSE /\ orders' = [orders EXCEPT ![i].status = "cancelled"]
                      /\ resp' = [op |-> "cancelOrder", code |-> 200]

\* cancelOrder step by step: each await of the handler is a point at which
\* another request may run.  The order is read and its status checked.
CancelBegin(c, i) ==
  /\ inflight[c].pc = "idle"
  /\ i \in 1 .. Len(orders)
  /\ UNCHANGED <<products, links, orders, gateway, events, now, stockTaken, mailer>>
  /\ IF orders[i].status \in {"completed", "cancelled"}
       THEN /\ resp' = [op |-> "cancelOrder", code |-> 400]
            /\ UNCHANGED inflight
       ELSE /\ inflight' = [inflight EXCEPT ![c] =
                              [pc |-> "restoring", order |-> i,
                               items |-> orders[i].items, k |-> 1]]
            /\ UNCHANGED resp

\* Product.findById(item.productId) for the k-th item: the document as it is
\* now; an id that names no product is skipped, one that is no ObjectId throws.
CancelReadProduct(c) ==
  LET req == inflight[c] IN
  /\ req.pc = "restoring"
  /\ req.k <= Len(req.items)
  /\ UNCHANGED <<products, links, orders, gateway, events, now, stockTaken, mailer>>
  /\ LET pid == req.items[req.k].productId IN
     IF ~WellFormedId(pid)
       THEN /\ inflight' = [inflight EXCEPT ![c] = Idle]
            /\ resp' = [op |-> "cancelOrder", code |-> 500]
       ELSE /\ UNCHANGED resp
            /\ inflight' =
                 [inflight EXCEPT ![c] =
                    IF pid \in DOMAIN products
                      THEN [pc |-> "read", order |-> req.order, items |-> req.items,
                            k |-> req.k, product |-> products[pid]]
                      ELSE [req EXCEPT !.k = @ + 1]]

\* product.save(): the paths whose values the handler changed on the document it
\* read are written as they now are on that document; the others are not sent.
CancelSaveProduct(c) ==
  LET req == inflight[c]
      item == req.items[req.k]
      read == req.product
      doc == [read EXCEPT !.quantity = @ + item.quantity,
                          !.inStock = TRUE,
                          !.badge = IF @ = "SOLD OUT" THEN NoBadge ELSE @]
      stored == products[item.productId]
      written == [f \in DOMAIN stored |-> IF doc[f] # read[f] THEN doc[f] ELSE stored[f]]
  IN
  /\ req.pc = "read"
  /\ UNCHANGED <<links, orders, gateway, events, now, stockTaken, resp, mailer>>
  /\ products' = [products EXCEPT ![item.productId] = written]
  /\ Within([Db EXCEPT !.products = products'])
  /\ inflight' = [inflight EXCEPT ![c] =
                    [pc |-> "restoring", order |-> req.order, items |-> req.items,
                     k |-> req.k + 1]]

\* order.status = 'cancelled'; order.save()
CancelFinish(c) ==
  LET req == inflight[c] IN
  /\ req.pc = "restoring"
  /\ req.k > Len(req.items)
  /\ UNCHANGED <<products, links, gateway, events, now, stockTaken, mailer>>
  /\ orders' = [orders EXCEPT ![req.order].status = "cancelled"]
  /\ inflight' = [inflight EXCEPT ![c] = Idle]
  /\ resp' = [op |-> "cancelOrder", code |-> 200]

(* Stock: controllers/productController *)

\* Bodies of updateStock requests.
StockRequests ==
  [quantity : {-1, 0, 2}, operation : {"set", "increment", "decrement"}]

\* updateStock; the save validates quantity >= 0 (ProductSchema min 0).
UpdateStock(id, body) ==
  /\ UNCHANGED <<links, orders, gateway, events, now, stockTaken, inflight, mailer>>
  /\ IF id \notin DOMAIN products
       THEN /\ resp' = [op |-> "updateStock", code |-> 404]
            /\ UNCHANGED products
       ELSE LET old == products[id].quantity
                quantity == IF body.operation = "set" THEN body.quantity
                            ELSE IF body.operation = "increment"
                              THEN old + body.quantity
                            ELSE Max(0, old - body.quantity)
            IN IF quantity < 0
                 THEN /\ resp' = [op |-> "updateStock", code |-> 500]
                      /\ UNCHANGED products
                 ELSE /\ products' =
                           [products EXCEPT
                              ![id].quantity = quantity,
                              ![id].inStock = quantity > 0,
                              ![id].badge = IF quantity = 0 THEN "SOLD OUT" ELSE @]
                      /\ Within([Db EXCEPT !.products = products'])
                      /\ resp' = [op |-> "updateStock", code |-> 200]

-----------------------------------------------------------------------------
(* Migration script: scripts/migratePaymentLinkOrders *)

\* The order the script builds for a completed link.
MigratedOrderData(link, reference, prods) ==
  [orderType |-> "payment_link",
   customerEmail |-> "unknown@email.com",
   customerName |-> IF link.customerName # "" THEN link.customerName
                    ELSE "Unknown Customer",
   customerPhone |-> link.customerPhone,
   items |-> IF link.productId \in DOMAIN prods
               THEN <<[productId |-> link.productId, price |-> link.amount,
                       quantity |-> link.quantity]>>
               ELSE <<[productId |-> CustomPayment, price |-> link.amount,
                       quantity |-> link.quantity]>>,
   subtotal |-> link.amount,
   shipping |-> 0,
   total |-> link.amount,
   paymentReference |-> reference,
   paymentStatus |-> "paid",
   status |-> "completed"]

\* The script's loop over the completed links, oldest first: a link that has an
\* order is skipped, an order that does not save is counted as an error.
RECURSIVE MigrateAll(_, _, _, _)
MigrateAll(ords, lks, prods, todo) ==
  IF todo = {} THEN ords
  ELSE LET r == CHOOSE x \in todo : \A y \in todo : x <= y
           next == IF FindOrderByReference(ords, r) # 0 THEN ords
                   ELSE SaveOrder(ords, MigratedOrderData(lks[r], r, prods), TRUE)
       IN MigrateAll(next, lks, prods, todo \ {r})

\* migratePaymentLinkOrders
MigratePaymentLinkOrders ==
  LET migrated == MigrateAll(orders, links, products,
                             {r \in DOMAIN links : links[r].status = "completed"})
  IN
  /\ Len(migrated) <= MaxOrders
  /\ orders' = migrated
  /\ resp' = [op |-> "migrate", code |-> 0]
  /\ UNCHANGED <<products, links, gateway, events, now, stockTaken, inflight, mailer>>

-----------------------------------------------------------------------------
(* Specification *)

\* What a webhook request can carry as its signature header: a digest the
\* gateway made (of this body, or of another body for the same reference), a
\* digest under a guessed key, or nothing.
SignaturesFor(body) ==
  {Hmac(SecretKey, b) : b \in {e \in events : e.reference = body.reference}
                              \cup {x \in {body} : x.event = "transfer.success"}}
    \cup {Hmac(ForgedKey, body), NoSignature}

\* The links a sweep starting now would re-verify.
StaleRefs == OldPendingLinks(ExpireLinks(links, now), now)

NextLink ==
  \/ Tick
  \/ \E r \in Refs, outcome \in {"success", "failed"} : GatewayCharge(r, outcome)
  \/ \E body \in LinkRequests, gatewayOk \in BOOLEAN : GeneratePaymentLink(body, gatewayOk)
  \/ \E r \in Refs, up \in BOOLEAN, saveOk \in BOOLEAN :
       VerifyPaymentTransaction(r, up, saveOk)
  \/ \E body \in WebhookBodies : \E signature \in SignaturesFor(body) :
       HandlePaystackWebhook(body, signature)
  \/ \E down \in SUBSET StaleRefs : \E saveFail \in SUBSET (StaleRefs \ down) :
       GetPaymentLinks(down, saveFail)

NextStore ==
  \/ \E body \in StoreRequests, saveOk \in BOOLEAN : CreateOrder(body, saveOk)
  \/ \E i \in 1 .. MaxOrders, body \in StatusUpdates : UpdateOrderStatus(i, body)
  \/ \E i \in 1 .. MaxOrders : CancelOrder(i)
  \/ MigratePaymentLinkOrders

Next == NextLink \/ NextStore

Spec == Init /\ [][Next]_vars

\* Everything that creates or changes an Order: store orders, their status
\* updates and cancellation, the migration script, and Derive-Order through
\* the public verify and the webhook, for one payment link, with the gateway up.
NextOrders ==
  \/ NextStore
  \/ \E r \in Refs : GatewayCharge(r, "success")
  \/ \E body \in LinkRequests : links = <<>> /\ GeneratePaymentLink(body, TRUE)
  \/ \E r \in Refs : VerifyPaymentTransaction(r, TRUE, TRUE)
  \/ \E body \in events : HandlePaystackWebhook(body, Hmac(SecretKey, body))

SpecOrders == Init /\ [][NextOrders]_vars

\* The payment-link lifecycle alone: links are created, paid at the gateway,
\* verified, swept, and reported by webhook; one request at a time.
SpecLink == Init /\ [][NextLink]_vars

\* Bodies of generate-link requests, valid and not: the catalogue product, an
\* unknown and a malformed product id with quantities 0..2 and a session timeout
\* absent, zero or five minutes; custom amounts over every hundredth up to
\* MaxKobo and one amount with three decimals (1.004), and a custom amount with
\* quantity 0.
CreateRequests ==
  { [productId |-> pid, customAmount |-> 0, quantity |-> q,
     sessionTimeoutMinutes |-> t, customerName |-> "Ada", customerPhone |-> "080"] :
      pid \in {"p1", UnknownProduct, MalformedProduct}, q \in 0 .. 2,
      t \in {TimeoutNotGiven, 0, 5} }
  \cup
  { [productId |-> NoProduct, customAmount |-> a, quantity |-> 1,
     sessionTimeoutMinutes |-> TimeoutNotGiven,
     customerName |-> "Ada", customerPhone |-> "080"] :
      a \in {k * UnitsPerKobo : k \in 0 .. MaxKobo} \cup {Naira(1) + 40} }
  \cup
  { [productId |-> NoProduct, customAmount |-> Naira(1), quantity |-> 0,
     sessionTimeoutMinutes |-> TimeoutNotGiven,
     customerName |-> "Ada", customerPhone |-> "080"] }

\* Link creation and verification of one link: every create request, the
\* customer's payment attempts, and the public verify.
NextCreate ==
  \/ Tick
  \/ \E body \in CreateRequests, gatewayOk \in BOOLEAN :
       links = <<>> /\ GeneratePaymentLink(body, gatewayOk)
  \/ \E r \in Refs, outcome \in {"success", "failed"} : GatewayCharge(r, outcome)
  \/ \E r \in Refs, up \in BOOLEAN : VerifyPaymentTransaction(r, up, TRUE)

SpecCreate == Init /\ [][NextCreate]_vars

\* Bodies of createOrder requests: one line; the same product on two lines; a
\* good line followed by an unknown product, by a malformed id, by more than
\* the shelf holds; a line of quantity 0; a body that carries a paymentReference.
Cart(items, paymentReference) ==
  [customerName |-> "Bola", customerEmail |-> "b@x.ng", customerPhone |-> "070",
   items |-> items, shipping |-> Num(0), paymentReference |-> paymentReference]

CartRequests ==
  { Cart(<<[productId |-> "p1", quantity |-> 1]>>, NoReference),
    Cart(<<[productId |-> "p1", quantity |-> 2],
           [productId |-> "p1", quantity |-> 2]>>, NoReference),
    Cart(<<[productId |-> "p1", quantity |-> 1],
           [productId |-> UnknownProduct, quantity |-> 1]>>, NoReference),
    Cart(<<[productId |-> "p1", quantity |-> 1],
           [productId |-> MalformedProduct, quantity |-> 1]>>, NoReference),
    Cart(<<[productId |-> "p1", quantity |-> 1],
           [productId |-> "p1", quantity |-> 4]>>, NoReference),
    Cart(<<[productId |-> "p1", quantity |-> 0]>>, NoReference),
    Cart(<<[productId |-> "p1", quantity |-> 1]>>, 1) }

\* The shop: store orders, their cancellation, and stock updates.
NextShop ==
  \/ \E body \in CartRequests, saveOk \in BOOLEAN : CreateOrder(body, saveOk)
  \/ \E i \in 1 .. MaxOrders : CancelOrder(i)
  \/ \E id \in ProductIds \cup {UnknownProduct}, body \in StockRequests :
       UpdateStock(id, body)

SpecShop == Init /\ [][NextShop]_vars

\* Orders with a payment reference: store orders whose body carries one, orders
\* derived from one payment link at a time, cancellation, and link deletion.
NextReferences ==
  \/ \E body \in {c \in CartRequests : Len(c.items) = 1 /\ c.items[1].quantity = 1} :
       CreateOrder(body, TRUE)
  \/ \E i \in 1 .. MaxOrders : CancelOrder(i)
  \/ \E body \in LinkRequests : links = <<>> /\ GeneratePaymentLink(body, TRUE)
  \/ \E r \in Refs : GatewayCharge(r, "success")
  \/ \E r \in Refs : VerifyPaymentTransaction(r, TRUE, TRUE)
  \/ \E r \in Refs : DeletePaymentLink(r)

SpecReferences == Init /\ [][NextReferences]_vars

\* Orders made while the notification dispatcher works or fails: store orders
\* and orders derived by the public verify.
NextNotify ==
  \/ \E m \in MailerStates : MailerTurns(m)
  \/ \E body \in CartRequests, saveOk \in BOOLEAN : CreateOrder(body, saveOk)
  \/ \E body \in LinkRequests : GeneratePaymentLink(body, TRUE)
  \/ \E r \in Refs : GatewayCharge(r, "success")
  \/ \E r \in Refs, saveOk \in BOOLEAN : VerifyPaymentTransaction(r, TRUE, saveOk)

SpecNotify == Init /\ [][NextNotify]_vars

\* Verification against a gateway whose answer may carry another reference:
\* links are created and paid, and verified by the public verify and the sweep.
NextMisreport ==
  \/ Tick
  \/ \E body \in LinkRequests : GeneratePaymentLink(body, TRUE)
  \/ \E r \in Refs : GatewayCharge(r, "success")
  \/ \E r \in Refs, other \in Refs : GatewayMisreport(r, other)
  \/ \E r \in Refs : VerifyPaymentTransaction(r, TRUE, TRUE)
  \/ GetPaymentLinks({}, {})

SpecMisreport == Init /\ [][NextMisreport]_vars

\* Two Verify triggers for one payment link, interleaved at their awaits.
NextRace ==
  \/ Tick
  \/ \E body \in LinkRequests : links = <<>> /\ GeneratePaymentLink(body, TRUE)
  \/ \E r \in Refs, outcome \in {"success", "failed"} : GatewayCharge(r, outcome)
  \/ \E t \in Triggers, r \in Refs : BeginTrigger(t, r)
  \/ \E t \in Triggers : LookupOrder(t)
  \/ \E t \in Triggers : SaveDerived(t)

SpecRace == Init /\ [][NextRace]_vars

\* Store orders of one line each, and cancelOrder requests interleaved with
\* them and with each other at their awaits.
NextCancelRace ==
  \/ \E body \in {b \in CartRequests : Len(b.items) = 1} : CreateOrder(body, TRUE)
  \/ \E c \in Cancellers, i \in 1 .. MaxOrders : CancelBegin(c, i)
  \/ \E c \in Cancellers : CancelReadProduct(c)
  \/ \E c \in Cancellers : CancelSaveProduct(c)
  \/ \E c \in Cancellers : CancelFinish(c)

SpecCancelRace == Init /\ [][NextCancelRace]_vars

-----------------------------------------------------------------------------
(* Properties *)

PaidAtGateway(r) == r \in DOMAIN gateway /\ gateway[r].status = "success"

\* The sweep steps and the public verify steps for reference r in which the
\* gateway call goes through.
IsSweep ==
  /\ resp'.op = "links"
  /\ \E down \in SUBSET StaleRefs : \E saveFail \in SUBSET (StaleRefs \ down) :
       GetPaymentLinks(down, saveFail)

IsVerifyAnswered(r) ==
  /\ resp'.op = "verify"
  /\ \E saveOk \in BOOLEAN : VerifyPaymentTransaction(r, TRUE, saveOk)

IsVerifyUnanswered(r) ==
  /\ resp'.op = "verify"
  /\ \E saveOk \in BOOLEAN : VerifyPaymentTransaction(r, FALSE, saveOk)

\* C1: with the Verify triggers (public verify, sweep) run one at a time, no
\* reference ever has more than one Order, and a public verify of a paid
\* reference whose order is already paid changes no order and answers 200.
C1_OneOrderPerReference ==
  [][\A r \in Refs :
       /\ CountOrders(orders', r) <= 1
       /\ ( /\ IsVerifyAnswered(r)
            /\ PaidAtGateway(r)
            /\ CountOrders(orders, r) = 1
            /\ \A i \in 1 .. Len(orders) :
                 orders[i].paymentReference = r => orders[i].paymentStatus = "paid" )
          => (orders' = orders /\ resp'.code = 200)]_vars

C1_Witness ==
  /\ resp = [op |-> "verify", code |-> 200]
  /\ \E r \in DOMAIN links :
       /\ links[r].status = "completed"
       /\ CountOrders(orders, r) = 1
       /\ \A i \in 1 .. Len(orders) : orders[i].paymentStatus = "paid"

\* C2: for every Order created from a product-backed link of quantity q, the
\* stock that Derive-Order has taken for that reference is exactly q, however
\* many verify calls there were and whether or not an earlier one failed to
\* persist its order.
C2_StockTakenOnce ==
  \A i \in 1 .. Len(orders) :
    LET r == orders[i].paymentReference IN
    (orders[i].orderType = "payment_link" /\ r \in DOMAIN links
       /\ links[r].productId \in DOMAIN products)
      => stockTaken[r] = links[r].quantity

\* C3: a charge.success webhook with a valid signature, for a pending link
\* without an Order, leaves links, orders and products as the public verify
\* of that paid reference would.
C3_WebhookDerivesOrder ==
  [][\A body \in WebhookBodies :
       LET r == body.reference IN
       ( /\ resp'.op = "webhook"
         /\ body.event = "charge.success"
         /\ PaidAtGateway(r)
         /\ r \in DOMAIN links /\ links[r].status = "pending"
         /\ CountOrders(orders, r) = 0
         /\ HandlePaystackWebhook(body, Hmac(SecretKey, body)) )
       => LET after == VerifyTransition(Db, r, VerifyPayment(gateway, r, TRUE).data, TRUE)
          IN /\ links' = after.links
             /\ orders' = after.orders
             /\ products' = after.products]_vars

\* C4: a completed link is never moved to failed.
C4_CompletedNeverFailed ==
  [][\A r \in DOMAIN links :
       links[r].status = "completed" => links'[r].status # "failed"]_vars

\* C5: an Order derived from a link of amount A has total = subtotal = A.
C5_LinkOrderTotal ==
  \A i \in 1 .. Len(orders) :
    LET r == orders[i].paymentReference IN
    (orders[i].orderType = "payment_link" /\ r \in DOMAIN links)
      => (orders[i].total = links[r].amount /\ orders[i].subtotal = links[r].amount)

\* C6: every persisted Order has total = subtotal + shipping.
C6_TotalIsSubtotalPlusShipping ==
  \A i \in 1 .. Len(orders) :
    orders[i].total = orders[i].subtotal + orders[i].shipping

\* C7: every persisted Order has subtotal = the sum over its items of
\* price * quantity.
C7_SubtotalIsItemSum ==
  \A i \in 1 .. Len(orders) : orders[i].subtotal = SumItems(orders[i].items)

\* C8: every link that is pending with expiresAt in the past when a sweep starts
\* is expired after it, and the sweep creates no Order and takes no stock for it.
C8_SweepExpires ==
  [][IsSweep =>
       \A r \in DOMAIN links :
         (links[r].status = "pending" /\ links[r].expiresAt # NoExpiry
            /\ links[r].expiresAt < now)
         => /\ links'[r].status = "expired"
            /\ CountOrders(orders', r) = CountOrders(orders, r)
            /\ stockTaken'[r] = stockTaken[r]]_vars

C8_Witness ==
  /\ resp = [op |-> "links", code |-> 200]
  /\ \E r \in DOMAIN links : links[r].status = "expired" /\ links[r].expiresAt < now

\* C9: a webhook whose signature header is not the HMAC of its body under the
\* shared secret is answered with an error status and changes no link, order
\* or product.  Stated by contraposition: a webhook step that answers below
\* 400, or changes a link, an order or a product, is the step of no request
\* with such a signature.
AllSignatures ==
  {Hmac(k, b) : k \in {SecretKey, ForgedKey}, b \in WebhookBodies} \cup {NoSignature}

C9_BadSignatureRejected ==
  [][(resp'.op = "webhook" /\ (resp'.code < 400 \/ links' # links
                                  \/ orders' # orders \/ products' # products))
       => \A body \in WebhookBodies : \A signature \in AllSignatures :
            HandlePaystackWebhook(body, signature) => signature = Hmac(SecretKey, body)]_vars

C9_Witness ==
  /\ resp = [op |-> "webhook", code |-> 400]
  /\ \E r \in DOMAIN links : links[r].status = "pending" /\ PaidAtGateway(r)

\* C10: when the gateway's verify call fails, the public verify answers with an
\* error status and changes nothing, and the sweep leaves the link it could not
\* verify, its orders and its stock as they were.
C10_GatewayErrorNoChange ==
  [][\A r \in Refs :
       /\ IsVerifyUnanswered(r)
            => /\ resp'.code >= 400
               /\ UNCHANGED <<links, orders, products>>
       /\ (r \notin DOMAIN gateway /\ IsVerifyAnswered(r))
            => /\ resp'.code >= 400
               /\ UNCHANGED <<links, orders, products>>
       /\ \A down \in SUBSET StaleRefs : \A saveFail \in SUBSET (StaleRefs \ down) :
            (resp'.op = "links" /\ r \in down /\ GetPaymentLinks(down, saveFail))
            => /\ links'[r] = links[r]
               /\ CountOrders(orders', r) = CountOrders(orders, r)
               /\ stockTaken'[r] = stockTaken[r]]_vars

C10_Witness ==
  /\ resp = [op |-> "verify", code |-> 400]
  /\ \E r \in DOMAIN links : links[r].status = "pending" /\ PaidAtGateway(r)

\* C11: a generate-link request whose product reference does not resolve, whose
\* resolved amount is not positive, or whose gateway initialize call fails is
\* answered with an error status and leaves the stored links as they were; so
\* does every generate-link request answered with an error status.
C11_FailedCreatePersistsNothing ==
  [][resp'.op = "generate" =>
       /\ resp'.code >= 400 => links' = links
       /\ \A body \in CreateRequests, gatewayOk \in BOOLEAN :
            ( /\ \/ body.productId # NoProduct /\ body.productId \notin DOMAIN products
                 \/ ResolvedAmount(body, products) <= 0
                 \/ ~gatewayOk
              /\ GeneratePaymentLink(body, gatewayOk) )
            => (links' = links /\ resp'.code >= 400)]_vars

C11_Witness ==
  /\ resp = [op |-> "generate", code |-> 500]
  /\ links = <<>>
  /\ gateway = <<>>

\* C12: a generate-link request naming a catalogue product with quantity >= 1,
\* with the gateway call succeeding, stores exactly one new link: under the
\* reference the gateway returned, with amount = price * quantity, status
\* pending and expiresAt = creation time + sessionTimeoutMinutes (1440 when the
\* body gives none).
C12_LinkPersisted ==
  [][\A body \in CreateRequests :
       ( /\ resp'.op = "generate"
         /\ body.productId \in DOMAIN products
         /\ body.quantity >= 1
         /\ GeneratePaymentLink(body, TRUE) )
       => \E r \in DOMAIN gateway' \ DOMAIN gateway :
            /\ r \notin DOMAIN links
            /\ DOMAIN links' = DOMAIN links \cup {r}
            /\ \A x \in DOMAIN links : links'[x] = links[x]
            /\ links'[r].amount = products[body.productId].price * body.quantity
            /\ links'[r].status = "pending"
            /\ links'[r].expiresAt = now + SessionTimeout(body)]_vars

\* C15: for every stored link whose amount A has at most two decimal places,
\* the gateway holds round(A * 100) = A * 100 minor units for its reference and
\* verifyPayment of that reference returns the amount A.
TwoDecimals(amount) == amount % UnitsPerKobo = 0

C15_AmountRoundTrip ==
  \A r \in DOMAIN links :
    TwoDecimals(links[r].amount)
      => /\ r \in DOMAIN gateway
         /\ gateway[r].amount * UnitsPerKobo = links[r].amount
         /\ VerifyPayment(gateway, r, TRUE).data.amount = links[r].amount

C15_Witness ==
  /\ resp = [op |-> "verify", code |-> 200]
  /\ \E r \in DOMAIN links :
       /\ TwoDecimals(links[r].amount)
       /\ links[r].amount % Scale # 0

\* C13: a createOrder request with a cart line that names no product, a
\* product that is not in stock, or more units than the product has, is
\* answered 400 and changes no order and no product.
LineFails(item) ==
  \/ item.productId \notin DOMAIN products
  \/ ~products[item.productId].inStock
  \/ item.quantity > products[item.productId].quantity

C13_InvalidCartRejected ==
  [][\A body \in CartRequests :
       ( /\ resp'.op = "createOrder"
         /\ \E k \in 1 .. Len(body.items) : LineFails(body.items[k])
         /\ \E saveOk \in BOOLEAN : CreateOrder(body, saveOk) )
       => (orders' = orders /\ products' = products /\ resp'.code = 400)]_vars

C13_Witness ==
  /\ resp = [op |-> "createOrder", code |-> 400]
  /\ products["p1"].quantity > 0
  /\ products["p1"].inStock

\* C14: cancelOrder of an order whose status is pending or processing leaves it
\* cancelled, and every catalogue product named by its items has its quantity
\* raised by the items' quantities, is in stock and carries no SOLD OUT badge.
RECURSIVE ItemQuantity(_, _)
ItemQuantity(items, id) ==
  IF items = <<>> THEN 0
  ELSE (IF items[1].productId = id THEN items[1].quantity ELSE 0)
         + ItemQuantity(Tail(items), id)

C14_CancelRestores ==
  [][\A i \in 1 .. Len(orders) :
       ( /\ resp'.op = "cancelOrder"
         /\ orders[i].status \in {"pending", "processing"}
         /\ CancelOrder(i) )
       => /\ orders'[i].status = "cancelled"
          /\ \A id \in DOMAIN products :
               LET back == ItemQuantity(orders[i].items, id) IN
               /\ products'[id].quantity = products[id].quantity + back
               /\ back > 0 => ( /\ products'[id].inStock
                                /\ products'[id].badge # "SOLD OUT" )]_vars

\* C17: every product's quantity is at least 0.
C17_StockNonNegative ==
  \A id \in DOMAIN products : products[id].quantity >= 0

\* C18: every order whose paymentReference is set has a stored payment link
\* under that reference, and no other order carries the same reference.
C18_ReferenceOneToOne ==
  \A i \in 1 .. Len(orders) :
    orders[i].paymentReference # NoReference
      => /\ orders[i].paymentReference \in DOMAIN links
         /\ CountOrders(orders, orders[i].paymentReference) = 1

\* C19: a link whose status is failed or expired keeps that status in every
\* step of a gateway-driven trigger (public verify, webhook, sweep).
C19_FailedExpiredStay ==
  [][\A r \in DOMAIN links :
       (links[r].status \in {"failed", "expired"} /\ r \in DOMAIN links')
         => links'[r].status = links[r].status]_vars

\* C20: a public verify of reference r that the gateway answers with success
\* under another reference changes no link, no order and no product.
C20_MismatchIsNoOp ==
  [][\A r \in Refs :
       LET verification == VerifyPayment(gateway, r, TRUE) IN
       ( /\ resp'.op = "verify"
         /\ verification.success
         /\ verification.data.status = "success"
         /\ verification.data.reference # r
         /\ VerifyPaymentTransaction(r, TRUE, TRUE) )
       => UNCHANGED <<links, orders, products>>]_vars

\* C16: two interleaved Verify triggers of one paid reference can each pass the
\* order lookup before the other saves.  Every order is added by a trigger that
\* saw no order of the reference at its lookup, and that takes the link's
\* quantity from the stock in the same step; so a reference has at most one
\* order per trigger, with the stock taken once for each.
C16_DuplicateOnlyByRace ==
  [][\A r \in Refs :
       /\ CountOrders(orders', r) <= Cardinality(Triggers)
       /\ CountOrders(orders', r) > CountOrders(orders, r)
            => \E t \in Triggers :
                 /\ inflight[t].pc = "looked" /\ inflight'[t].pc = "idle"
                 /\ inflight[t].reference = r
                 /\ inflight[t].seen = 0
                 /\ inflight[t].link.productId \in DOMAIN products
                      => stockTaken'[r] = stockTaken[r] + inflight[t].link.quantity]_vars

C16_Witness ==
  \E r \in DOMAIN links :
    /\ CountOrders(orders, r) = 2
    /\ links[r].productId \in DOMAIN products
    /\ stockTaken[r] = 2 * links[r].quantity
    /\ products[links[r].productId].quantity
         = SeedProducts[links[r].productId].quantity - 2 * links[r].quantity

\* C21: a public verify of a successfully paid reference whose link has no
\* order yet persists a new Order (payment_link, paid, processing) for it,
\* also when the link carries no customer name, email or phone and the gateway
\* gives no customer name.
C21_AnonymousLinkOrder ==
  [][\A r \in Refs :
       ( /\ resp'.op = "verify"
         /\ PaidAtGateway(r)
         /\ r \in DOMAIN links
         /\ CountOrders(orders, r) = 0
         /\ VerifyPaymentTransaction(r, TRUE, TRUE) )
       => \E i \in 1 .. Len(orders') :
            /\ orders'[i].paymentReference = r
            /\ orders'[i].orderType = "payment_link"
            /\ orders'[i].paymentStatus = "paid"
            /\ orders'[i].status = "processing"]_vars

\* C22: after every completed stock-mutating operation (store createOrder,
\* cancelOrder, updateStock), run one at a time from a state where it held,
\* each product has inStock = TRUE exactly when its quantity is above zero.
C22_InStockIffPositive ==
  \A p \in DOMAIN products : products[p].inStock <=> products[p].quantity > 0

\* C23: whenever a stock operation brings a product's quantity to zero its
\* badge becomes SOLD OUT, and whenever a restock (cancelOrder, or updateStock
\* with set or increment) brings the quantity from zero to a positive value
\* the product no longer carries the SOLD OUT badge.
C23_SoldOutBadgeFollowsStock ==
  [][\A p \in DOMAIN products :
       /\ (products[p].quantity # 0 /\ products'[p].quantity = 0)
            => products'[p].badge = "SOLD OUT"
       /\ ( /\ resp'.op \in {"cancelOrder", "updateStock"}
            /\ products[p].quantity = 0
            /\ products'[p].quantity > 0
            /\ \/ \E i \in 1 .. Len(orders) : CancelOrder(i)
               \/ \E body \in StockRequests :
                    /\ body.operation \in {"set", "increment"}
                    /\ UpdateStock(p, body) )
            => products'[p].badge # "SOLD OUT"]_vars

\* C24: in one sweep, a gateway error while re-verifying one stale pending link
\* does not end the batch: every other pending link older than ten minutes is
\* still verified and moves as its own gateway result says (completed on
\* success, failed on failure, pending otherwise), and a pending link that is
\* younger than ten minutes and not expired is left as it was.
C24_SweepContinuesPastError ==
  [][\A down \in SUBSET StaleRefs :
       ( /\ resp'.op = "links"
         /\ down # {}
         /\ \E saveFail \in SUBSET (StaleRefs \ down) : GetPaymentLinks(down, saveFail) )
       => /\ \A r \in StaleRefs \ down :
               links'[r].status =
                 IF gateway[r].status = "success" THEN "completed"
                 ELSE IF gateway[r].status = "failed" THEN "failed"
                 ELSE "pending"
          /\ \A r \in DOMAIN links :
               ( /\ links[r].status = "pending"
                 /\ links[r].createdAt >= now - StaleMinutes
                 /\ ~(links[r].expiresAt # NoExpiry /\ links[r].expiresAt < now) )
               => links'[r] = links[r]]_vars

C24_Witness ==
  /\ resp = [op |-> "links", code |-> 200]
  /\ \E r \in DOMAIN links, s \in DOMAIN links :
       /\ r < s
       /\ r \in StaleRefs /\ PaidAtGateway(r)
       /\ links[s].createdAt < now - StaleMinutes
       /\ links[s].status = "completed"
       /\ CountOrders(orders, s) = 1

\* C25: when the notification dispatcher fails (returns false or throws) while
\* store createOrder or Derive-Order handles a request, the order that was
\* written stays in the store, the stock decrement for it is applied, and the
\* caller gets no error (201 from createOrder, 200 from the public verify).
C25_NotificationFailureHarmless ==
  [][(mailer # "up" /\ Len(orders') > Len(orders))
       => /\ Len(orders') = Len(orders) + 1
          /\ SubSeq(orders', 1, Len(orders)) = orders
          /\ LET order == orders'[Len(orders')]
                 line == order.items[1]
             IN /\ resp'.op = "createOrder"
                     => /\ order.orderType = "store"
                        /\ products' = DecrementStock(products, order.items)
                        /\ resp'.code = 201
                /\ resp'.op = "verify"
                     => /\ order.orderType = "payment_link"
                        /\ line.productId \in DOMAIN products
                             => products' = TakeStock(products, line.productId, line.quantity)
                        /\ line.productId \notin DOMAIN products
                             => products' = products
                        /\ resp'.code = 200]_vars

C25_Witness ==
  /\ mailer = "throwing"
  /\ resp = [op |-> "createOrder", code |-> 201]
  /\ Len(orders) = 2
  /\ orders[1].orderType = "payment_link"
  /\ orders[2].orderType = "store"
  /\ products["p1"].quantity < SeedProducts["p1"].quantity - orders[1].items[1].quantity

\* C26: whenever no handler is mid-execution, every PaymentLink whose status
\* is completed has an Order whose paymentReference is the link's reference,
\* whichever operation completed the link.
C26_CompletedLinkHasOrder ==
  \A r \in DOMAIN links :
    links[r].status = "completed" => CountOrders(orders, r) >= 1

\* C27: when Derive-Order, called by the public verify for a paid reference
\* that has no order, fails to persist the new Order, every product's
\* quantity, inStock and badge are what they were before the attempt.
C27_FailedSaveLeavesStock ==
  [][\A r \in Refs :
       ( /\ resp'.op = "verify"
         /\ PaidAtGateway(r)
         /\ r \in DOMAIN links
         /\ CountOrders(orders, r) = 0
         /\ \E saveOk \in BOOLEAN : VerifyPaymentTransaction(r, TRUE, saveOk)
         /\ CountOrders(orders', r) = 0 )
       => products' = products]_vars

\* C28: once an Order's paymentStatus is paid, no gateway-driven event (public
\* verify, webhook, sweep) changes it to failed or pending; a charge.failed
\* webhook that arrives after the confirmation leaves the order paid.
C28_PaidStaysPaid ==
  [][\A i \in 1 .. Len(orders) :
       ( /\ resp'.op \in {"verify", "webhook", "links"}
         /\ orders[i].paymentStatus = "paid" )
       => /\ i <= Len(orders')
          /\ orders'[i].paymentStatus = "paid"]_vars

\* C29: an Order whose status is cancelled never leaves cancelled through a
\* payment trigger: a later successful public verify (or charge.success
\* webhook) of its reference does not set its status back to processing.
C29_CancelledStaysCancelled ==
  [][\A i \in 1 .. Len(orders) :
       ( /\ resp'.op \in {"verify", "webhook"}
         /\ orders[i].status = "cancelled" )
       => /\ i <= Len(orders')
          /\ orders'[i].status = "cancelled"]_vars

\* The units of product p that the orders not cancelled hold.
RECURSIVE HeldQuantity(_, _)
HeldQuantity(ords, p) ==
  IF ords = <<>> THEN 0
  ELSE (IF ords[1].status # "cancelled" THEN ItemQuantity(ords[1].items, p) ELSE 0)
         + HeldQuantity(Tail(ords), p)

\* C30: when cancelOrder requests interleave with store createOrder and with
\* each other, every change takes effect once: as soon as no cancelOrder is
\* mid-execution, each product's quantity is its initial quantity less the
\* units taken by the orders that are not cancelled (a cancel restoring r
\* around an order taking d leaves initial + r - d, and two cancels of one
\* order restore its units once).
C30_InterleavedStockChangesAllApply ==
  (\A c \in Cancellers : inflight[c].pc = "idle")
    => \A p \in DOMAIN products :
         products[p].quantity = SeedProducts[p].quantity - HeldQuantity(orders, p)

====
